---- MODULE Spec2Model ----
(***************************************************************************)
(* Legal Policy Reader: the FastAPI webhook (webhook.py), its helpers      *)
(* (utils/api_utils.py), the Streamlit document loader                     *)
(* (utils/document_processor.py) and the Streamlit script (app.py).        *)
(*                                                                         *)
(* Python strings are modelled as sequences of one-character strings, so   *)
(* that suffix extraction, splitting, stripping and lower-casing are       *)
(* computed, not assumed.                                                  *)
(***************************************************************************)
EXTENDS Integers, Sequences, FiniteSets, TLC

\* Optional values: None, or Some(v).
None == [some |-> FALSE]
Some(v) == [some |-> TRUE, v |-> v]

\* Python truthiness of an Optional[str] or Optional[list]: None, "" and []
\* are false.
Falsy(o) == ~o.some \/ o.v = <<>>

(***************************************************************************)
(* Bounds of the model.                                                    *)
(***************************************************************************)
MaxQuestions == 2
MaxRuns == 4
MaxRequests == 2

(***************************************************************************)
(* String helpers: str.lower, str.startswith, str.strip('.'),              *)
(* str.split('.')[-1], and pathlib's PurePosixPath.name / .suffix.         *)
(***************************************************************************)
UpperAlpha == <<"A","B","C","D","E","F","G","H","I","J","K","L","M",
                "N","O","P","Q","R","S","T","U","V","W","X","Y","Z">>
LowerAlpha == <<"a","b","c","d","e","f","g","h","i","j","k","l","m",
                "n","o","p","q","r","s","t","u","v","w","x","y","z">>

LowerChar(c) ==
    IF \E i \in 1..Len(UpperAlpha) : UpperAlpha[i] = c
    THEN LowerAlpha[CHOOSE i \in 1..Len(UpperAlpha) : UpperAlpha[i] = c]
    ELSE c

Lower(s) == [i \in 1..Len(s) |-> LowerChar(s[i])]

StartsWith(s, p) == Len(s) >= Len(p) /\ SubSeq(s, 1, Len(p)) = p

\* Index of the last occurrence of character c in s, 0 when there is none
\* (str.rfind, shifted to 1-based positions).
RFind(s, c) ==
    IF \E i \in 1..Len(s) : s[i] = c
    THEN CHOOSE i \in 1..Len(s) : s[i] = c /\ \A j \in (i+1)..Len(s) : s[j] # c
    ELSE 0

\* s.split('.')[-1]
LastDotPart(s) == SubSeq(s, RFind(s, ".") + 1, Len(s))

\* s.strip('.')
RECURSIVE StripDots(_)
StripDots(s) ==
    IF s = <<>> THEN s
    ELSE IF Head(s) = "." THEN StripDots(Tail(s))
    ELSE IF s[Len(s)] = "." THEN StripDots(SubSeq(s, 1, Len(s) - 1))
    ELSE s

\* The components of a path: split on "/", with empty and "." components dropped.
RECURSIVE PathParts(_, _, _)
PathParts(s, cur, acc) ==
    LET flush == IF cur = <<>> \/ cur = <<".">> THEN acc ELSE Append(acc, cur)
    IN IF s = <<>> THEN flush
       ELSE IF Head(s) = "/" THEN PathParts(Tail(s), <<>>, flush)
       ELSE PathParts(Tail(s), Append(cur, Head(s)), acc)

\* Path(p).name
PathName(p) ==
    LET parts == PathParts(p, <<>>, <<>>)
    IN IF parts = <<>> THEN <<>> ELSE parts[Len(parts)]

\* Path(p).suffix: from the last dot of the name, when that dot is neither the
\* first nor the last character of the name.
PathSuffix(p) ==
    LET name == PathName(p)
        i == RFind(name, ".")
    IN IF 1 < i /\ i < Len(name) THEN SubSeq(name, i, Len(name)) ELSE <<>>


(***************************************************************************)
(* Loader selection.                                                       *)
(***************************************************************************)
PDF == <<"p","d","f">>
DOCX == <<"d","o","c","x">>
DOC == <<"d","o","c">>
TXT == <<"t","x","t">>

\* api_utils.py 56 load_document_from_path: the extension it compares.
PathExtension(temp_file_path) == StripDots(Lower(PathSuffix(temp_file_path)))

\* api_utils.py 59-67 load_document_from_path: the if/elif chain; "none" = the
\* else branch, which returns None without building a loader.
SelectLoaderFromPath(file_extension) ==
    IF file_extension = PDF THEN "PyPDFLoader"
    ELSE IF file_extension \in {DOCX, DOC} THEN "UnstructuredWordDocumentLoader"
    ELSE IF file_extension = TXT THEN "TextLoader"
    ELSE "none"

\* document_processor.py 11 load_document: the extension it compares.
UploadExtension(name) == Lower(LastDotPart(name))

\* document_processor.py 18-30 load_document: the if/elif chain; "none" = the
\* else branch, which returns None without building a loader.
SelectLoaderUpload(file_extension) ==
    IF file_extension = PDF THEN "PyPDFLoader"
    ELSE IF file_extension \in {DOCX, DOC} THEN "UnstructuredWordDocumentLoader"
    ELSE IF file_extension = TXT THEN "TextLoader"
    ELSE "none"

\* tempfile: a name under /tmp, "tmp" + random characters (no dot, no slash:
\* one opaque token) + suffix.
TempIds == <<"tmpk1", "tmpk2", "tmpk3", "tmpk4", "tmpk5", "tmpk6">>
TempName(id, suffix) == <<"/","t","m","p","/", id>> \o suffix

\* tempfile draws names until one does not exist.  The random characters
\* carry no meaning, so the model takes the first free token.
FreshName(files, suffix) ==
    TempName(TempIds[CHOOSE i \in 1..Len(TempIds) :
                        /\ TempName(TempIds[i], suffix) \notin files
                        /\ \A j \in 1..(i-1) : TempName(TempIds[j], suffix) \in files],
             suffix)
HasFreshName(files, suffix) ==
    \E i \in 1..Len(TempIds) : TempName(TempIds[i], suffix) \notin files

\* api_utils.py 35 download_file_from_url: the suffix given to NamedTemporaryFile.
DownloadSuffix(url) == PathSuffix(url)

\* document_processor.py 13 load_document: the suffix given to NamedTemporaryFile.
UploadSuffix(name) == <<".">> \o UploadExtension(name)

(***************************************************************************)
(* Inputs of the webhook: document URLs, Authorization headers, questions. *)
(***************************************************************************)
UrlBase == <<"h","t","t","p",":","/","/","h","/","a">>
UrlPdf == UrlBase \o <<".","p","d","f">>
UrlPdfUpper == UrlBase \o <<".","P","D","F">>
UrlDocx == UrlBase \o <<".","d","o","c","x">>
UrlDoc == UrlBase \o <<".","d","o","c">>
UrlTxt == UrlBase \o <<".","t","x","t">>
UrlPdfQuery == UrlBase \o <<".","p","d","f","?","s","=","1">>
UrlCsv == UrlBase \o <<".","c","s","v">>
UrlNoExt == UrlBase
Urls == {UrlPdf, UrlPdfUpper, UrlDocx, UrlDoc, UrlTxt, UrlPdfQuery, UrlCsv, UrlNoExt}

DocumentLists == {<<>>} \cup {<<u>> : u \in Urls} \cup {<<UrlTxt, UrlCsv>>}

BearerPrefix == <<"B","e","a","r","e","r"," ">>
HeaderValues ==
    { <<>>,
      <<"B","e","a","r","e","r">>,
      BearerPrefix,
      BearerPrefix \o <<"t">>,
      <<"b","e","a","r","e","r"," ","t">>,
      <<"B","a","s","i","c"," ","t">> }
\* request.headers.get('Authorization'): None when the header is absent.
AuthHeaders == {None} \cup {Some(h) : h \in HeaderValues}

Questions == {"q1", "q2"}
QuestionLists == UNION {[1..n -> Questions] : n \in 0..MaxQuestions}



(***************************************************************************)
(* State.                                                                  *)
(*   Webhook (webhook.py process_policy_query): pc is the handler's        *)
(*   position, the next eight variables are its arguments and locals,      *)
(*   outcome is what the handler returns or raises, calls is the sequence  *)
(*   of library calls it has made for the current request, fs is the set   *)
(*   of temporary paths that exist on disk, created the temporary paths    *)
(*   the current request has created, served the number of requests        *)
(*   answered.                                                             *)
(***************************************************************************)
VARIABLES pc, auth_header, payload, temp_db_path, local_file_path,
          documents, chunks, vectorstore, answers, exc, outcome, calls,
          fs, created, served

(***************************************************************************)
(*   load_document (utils/document_processor.py): ld_pc is its position,   *)
(*   ld_file the uploaded file's name, ld_temp_file_path the temporary     *)
(*   copy, ld_invoked the loader it called, ld_ret its return value (or    *)
(*   the exception it let through in ld_raised), ld_fs the temporary       *)
(*   directory's content, ld_calls the number of calls so far.             *)
(***************************************************************************)
VARIABLES ld_pc, ld_file, ld_temp_file_path, ld_invoked, ld_ret, ld_raised,
          ld_fs, ld_calls

loadVars == <<ld_pc, ld_file, ld_temp_file_path, ld_invoked, ld_ret, ld_raised,
              ld_fs, ld_calls>>

(***************************************************************************)
(*   Streamlit script (app.py), one browser session: session_state is      *)
(*   st.session_state (a dictionary), uploaded_file the file_uploader's    *)
(*   widget state, user_query the text_area's, ta_default the value the    *)
(*   text_area was last built with, chroma_dir whether CHROMA_DB_PATH      *)
(*   exists.  History: n_load, n_chunk, n_embed count the calls to         *)
(*   load_document, chunk_documents and create_and_store_embeddings since  *)
(*   the file was selected; n_qa counts the calls of the QA chain during   *)
(*   the last interaction; shown is what the last run displayed;           *)
(*   last_event the last interaction; cleared whether Clear Document Data  *)
(*   was clicked and no file selected since; runs counts interactions.     *)
(***************************************************************************)
VARIABLES session_state, uploaded_file, user_query, ta_default, chroma_dir,
          n_load, n_chunk, n_embed, n_qa, shown, last_event, cleared, runs

appVars == <<session_state, uploaded_file, user_query, ta_default, chroma_dir,
             n_load, n_chunk, n_embed, n_qa, shown, last_event, cleared, runs>>

webVars == <<pc, auth_header, payload, temp_db_path, local_file_path,
             documents, chunks, vectorstore, answers, exc, outcome, calls,
             fs, created, served>>

NoOutcome == [kind |-> "none", status_code |-> 0, detail |-> <<>>, answers |-> <<>>]
NoPayload == [documents |-> <<>>, questions |-> <<>>]

Call(op, arg) == [op |-> op, arg |-> arg]

\* An exception object: its class, its status code (HTTPException only) and
\* the text str(e) contains.
Exc(type, status_code, msg) == [type |-> type, status_code |-> status_code, msg |-> msg]
HTTPException(status_code, detail) == Exc("HTTPException", status_code, detail)

Raised(e) == [kind |-> e.type, status_code |-> e.status_code,
              detail |-> <<e.msg>>, answers |-> <<>>]

WebInit ==
    /\ pc = "idle"
    /\ auth_header = None
    /\ payload = NoPayload
    /\ temp_db_path = None
    /\ local_file_path = None
    /\ documents = None
    /\ chunks = <<>>
    /\ vectorstore = None
    /\ answers = <<>>
    /\ exc = None
    /\ outcome = NoOutcome
    /\ calls = <<>>
    /\ fs = {}
    /\ created = {}
    /\ served = 0

\* The Authorization check without its startswith("Bearer ") half.
AuthRejectedMissingOnly(h) == Falsy(h)

\* webhook.py 47-49: the Authorization check.
AuthRejected(h) == Falsy(h) \/ ~StartsWith(h.v, BearerPrefix)

\* webhook.py 45-56: the request arrives; the Authorization check, the read of
\* documents[0], and tempfile.mkdtemp().  Nothing of this is inside the try.
Entry(h, docs, qs) ==
    /\ pc = "idle"
    /\ served < MaxRequests
    /\ HasFreshName(fs, <<>>)
    /\ auth_header' = h
    /\ payload' = [documents |-> docs, questions |-> qs]
    /\ local_file_path' = None
    /\ documents' = None
    /\ chunks' = <<>>
    /\ vectorstore' = None
    /\ answers' = <<>>
    /\ exc' = None
    /\ calls' = IF AuthRejected(h) \/ docs = <<>> THEN <<>>
                ELSE <<Call("mkdtemp", "")>>
    /\ IF AuthRejected(h)
       THEN /\ outcome' = Raised(HTTPException(401, "Missing or invalid Authorization header"))
            /\ pc' = "done"
            /\ temp_db_path' = None
            /\ fs' = fs
            /\ created' = {}
       ELSE IF docs = <<>>
       THEN /\ outcome' = Raised(Exc("IndexError", 0, "list index out of range"))
            /\ pc' = "done"
            /\ temp_db_path' = None
            /\ fs' = fs
            /\ created' = {}
       ELSE /\ outcome' = NoOutcome
            /\ pc' = "download"
            /\ temp_db_path' = Some(FreshName(fs, <<>>))
            /\ fs' = fs \cup {FreshName(fs, <<>>)}
            /\ created' = {FreshName(fs, <<>>)}
    /\ UNCHANGED served
    /\ UNCHANGED <<loadVars, appVars>>

\* webhook.py 51
DocUrl == payload.documents[1]

\* What the network and the disk can do to one download.
NetOutcomes == {"ok", "connect_error", "http_error", "stream_error", "write_error"}

\* api_utils.py 14-48 download_file_from_url: [ret, raised, created].
\* requests.get or raise_for_status failing raises before the temporary file
\* exists; a RequestException while iterating the body, or an OSError while
\* writing, is raised inside the NamedTemporaryFile(delete=False) block, which
\* closes the file and leaves it on disk.  Only RequestException is caught.
download_file_from_url(url, files, net) ==
    LET path == FreshName(files, DownloadSuffix(url))
    IN CASE net \in {"connect_error", "http_error"} ->
              [ret |-> None, raised |-> None, created |-> {}]
         [] net = "stream_error" ->
              [ret |-> None, raised |-> None, created |-> {path}]
         [] net = "write_error" ->
              [ret |-> None, raised |-> Some(Exc("OSError", 0, "No space left on device")),
               created |-> {path}]
         [] OTHER ->
              [ret |-> Some(path), raised |-> None, created |-> {path}]

\* webhook.py 60-62
Download(net) ==
    /\ pc = "download"
    /\ HasFreshName(fs, DownloadSuffix(DocUrl))
    /\ LET r == download_file_from_url(DocUrl, fs, net)
       IN /\ fs' = fs \cup r.created
          /\ created' = created \cup r.created
          /\ calls' = Append(calls, Call("download", ""))
          /\ IF r.raised.some
             THEN /\ local_file_path' = local_file_path
                  /\ exc' = r.raised
                  /\ pc' = "except"
             ELSE /\ local_file_path' = r.ret
                  /\ IF Falsy(r.ret)
                     THEN /\ exc' = Some(HTTPException(400, "Could not download document from URL."))
                          /\ pc' = "except"
                     ELSE /\ exc' = exc
                          /\ pc' = "load"
    /\ UNCHANGED <<auth_header, payload, temp_db_path, documents, chunks,
                   vectorstore, answers, outcome, served>>
    /\ UNCHANGED <<loadVars, appVars>>

\* What a loader's load() can do.
LoadOutcomes == {"docs", "empty", "raise"}

\* api_utils.py 50-74 load_document_from_path: [ret, invoked].  The else
\* branch returns None before any loader is built; an exception of the loader
\* is caught and None is returned.
load_document_from_path(temp_file_path, res) ==
    LET loader == SelectLoaderFromPath(PathExtension(temp_file_path))
    IN IF loader = "none" THEN [ret |-> None, invoked |-> <<>>]
       ELSE [ret |-> CASE res = "docs" -> Some(<<[source |-> temp_file_path]>>)
                       [] res = "empty" -> Some(<<>>)
                       [] OTHER -> None,
             invoked |-> <<Call("loader.load", loader)>>]

\* The check written as "documents is None": an empty list passes it.
NoDocumentsNoneOnly(ret) == ~ret.some

\* webhook.py 66: if not documents
NoDocuments(ret) == Falsy(ret)

\* webhook.py 65-67
Load(res) ==
    /\ pc = "load"
    /\ LET r == load_document_from_path(local_file_path.v, res)
       IN /\ documents' = r.ret
          /\ calls' = Append(calls, Call("load", "")) \o r.invoked
          /\ IF NoDocuments(r.ret)
             THEN /\ exc' = Some(HTTPException(400, "Could not load the downloaded document."))
                  /\ pc' = "except"
             ELSE /\ exc' = exc
                  /\ pc' = "chunk"
    /\ UNCHANGED <<auth_header, payload, temp_db_path, local_file_path, chunks,
                   vectorstore, answers, outcome, fs, created, served>>
    /\ UNCHANGED <<loadVars, appVars>>


\* What the text splitter can do: chunks, no chunk (pages without text), or
\* an exception, which chunk_documents_api does not catch.
ChunkOutcomes == {"chunks", "empty", "raise"}

\* api_utils.py 76-91 chunk_documents_api: [ret, raised].
chunk_documents_api(docs, res) ==
    IF Falsy(docs) THEN [ret |-> <<>>, raised |-> None]
    ELSE CASE res = "chunks" ->
                [ret |-> [i \in 1..Len(docs.v) |-> [source |-> docs.v[i].source]],
                 raised |-> None]
           [] res = "empty" -> [ret |-> <<>>, raised |-> None]
           [] OTHER -> [ret |-> <<>>,
                        raised |-> Some(Exc("ValueError", 0, "splitter failed"))]

\* webhook.py 70-72
Chunk(res) ==
    /\ pc = "chunk"
    /\ LET r == chunk_documents_api(documents, res)
       IN /\ calls' = Append(calls, Call("chunk", ""))
          /\ IF r.raised.some
             THEN /\ chunks' = chunks
                  /\ exc' = r.raised
                  /\ pc' = "except"
             ELSE /\ chunks' = r.ret
                  /\ IF r.ret = <<>>
                     THEN /\ exc' = Some(HTTPException(500, "Failed to chunk document."))
                          /\ pc' = "except"
                     ELSE /\ exc' = exc
                          /\ pc' = "embed"
    /\ UNCHANGED <<auth_header, payload, temp_db_path, local_file_path, documents,
                   vectorstore, answers, outcome, fs, created, served>>
    /\ UNCHANGED <<loadVars, appVars>>

\* What the embedding API and Chroma can do.
EmbedOutcomes == {"ok", "raise"}

\* api_utils.py 93-112 create_and_store_embeddings_api: the vector store, or
\* None when there is no chunk or Chroma.from_documents raised.
create_and_store_embeddings_api(cs, persist_path, res) ==
    IF cs = <<>> THEN [ret |-> None, invoked |-> <<>>]
    ELSE [ret |-> IF res = "ok"
                  THEN Some([persist_directory |-> persist_path,
                             source |-> cs[1].source])
                  ELSE None,
          invoked |-> <<Call("Chroma.from_documents", "")>>]

\* webhook.py 75-77
Embed(res) ==
    /\ pc = "embed"
    /\ LET r == create_and_store_embeddings_api(chunks, temp_db_path.v, res)
       IN /\ vectorstore' = r.ret
          /\ calls' = Append(calls, Call("embed", "")) \o r.invoked
          /\ IF ~r.ret.some
             THEN /\ exc' = Some(HTTPException(500, "Failed to create vector embeddings."))
                  /\ pc' = "except"
             ELSE /\ exc' = exc
                  /\ pc' = "create_chain"
    /\ UNCHANGED <<auth_header, payload, temp_db_path, local_file_path, documents,
                   chunks, answers, outcome, fs, created, served>>
    /\ UNCHANGED <<loadVars, appVars>>

ChainOutcomes == {"ok", "raise"}

\* webhook.py 80, qa_chain.py 5-30 create_qa_chain: builds the retriever and
\* the chain over the request's vector store; an exception is not caught there.
CreateChain(res) ==
    /\ pc = "create_chain"
    /\ calls' = Append(calls, Call("create_qa_chain", ""))
    /\ IF res = "ok"
       THEN /\ exc' = exc
            /\ pc' = "answer"
       ELSE /\ exc' = Some(Exc("ValueError", 0, "chain construction failed"))
            /\ pc' = "except"
    /\ UNCHANGED <<auth_header, payload, temp_db_path, local_file_path, documents,
                   chunks, vectorstore, answers, outcome, fs, created, served>>
    /\ UNCHANGED <<loadVars, appVars>>

\* qa_chain.py 23-29: the chain's output for a query, with
\* return_source_documents=True.  The result is named by the question asked and
\* the document the store was built from.
RunChain(vs, q) ==
    [result |-> [question |-> q, source |-> vs.source],
     source_documents |-> <<vs.source>>]

DefaultAnswer == [question |-> "No answer found.", source |-> <<>>]

\* dict.get("result", "No answer found.")
GetResult(out) == IF "result" \in DOMAIN out THEN out.result ELSE DefaultAnswer

\* webhook.py 81: the next question of the list comprehension.
NextQuestion == payload.questions[Len(answers) + 1]

\* The accumulation with each answer put in front of the earlier ones.
CollectInFront(as, a) == <<a>> \o as

\* webhook.py 81: the list comprehension's accumulation of one answer.
Collect(as, a) == Append(as, a)

\* webhook.py 81: one iteration of the list comprehension; the chain may raise
\* (quota, network), which ends the comprehension.
Answer(res) ==
    /\ pc = "answer"
    /\ Len(answers) < Len(payload.questions)
    /\ calls' = Append(calls, Call("query", NextQuestion))
    /\ IF res = "ok"
       THEN /\ answers' = Collect(answers, GetResult(RunChain(vectorstore.v, NextQuestion)))
            /\ exc' = exc
            /\ pc' = pc
       ELSE /\ answers' = answers
            /\ exc' = Some(Exc("RuntimeError", 0, "chat model call failed"))
            /\ pc' = "except"
    /\ UNCHANGED <<auth_header, payload, temp_db_path, local_file_path, documents,
                   chunks, vectorstore, outcome, fs, created, served>>
    /\ UNCHANGED <<loadVars, appVars>>

\* webhook.py 83: return QueryResponse(answers=answers)
Return ==
    /\ pc = "answer"
    /\ Len(answers) = Len(payload.questions)
    /\ outcome' = [kind |-> "QueryResponse", status_code |-> 200,
                   detail |-> <<>>, answers |-> answers]
    /\ pc' = "finally"
    /\ UNCHANGED <<auth_header, payload, temp_db_path, local_file_path, documents,
                   chunks, vectorstore, answers, exc, calls, fs, created, served>>
    /\ UNCHANGED <<loadVars, appVars>>

\* webhook.py 85-87: except Exception catches whatever the try block raised,
\* the handler's own HTTPException(400) included, and raises HTTPException(500).
Except ==
    /\ pc = "except"
    /\ outcome' = [kind |-> "HTTPException", status_code |-> 500,
                   detail |-> <<"An internal error occurred: ", exc.v.msg>>,
                   answers |-> <<>>]
    /\ pc' = "finally"
    /\ UNCHANGED <<auth_header, payload, temp_db_path, local_file_path, documents,
                   chunks, vectorstore, answers, exc, calls, fs, created, served>>
    /\ UNCHANGED <<loadVars, appVars>>

\* webhook.py 89-94: the finally block's removals.
Cleanup(files, file_path, db_path) ==
    (files \ (IF ~Falsy(file_path) /\ file_path.v \in files THEN {file_path.v} ELSE {}))
        \ {db_path.v}

\* webhook.py 89-94
Finally ==
    /\ pc = "finally"
    /\ fs' = Cleanup(fs, local_file_path, temp_db_path)
    /\ pc' = "done"
    /\ UNCHANGED <<auth_header, payload, temp_db_path, local_file_path, documents,
                   chunks, vectorstore, answers, exc, outcome, calls, created, served>>
    /\ UNCHANGED <<loadVars, appVars>>

\* The response has been sent and the handler's frame is gone; the server
\* waits for the next request.  The disk is what the handler left.
Respond ==
    /\ pc = "done"
    /\ pc' = "idle"
    /\ served' = served + 1
    /\ auth_header' = None
    /\ payload' = NoPayload
    /\ temp_db_path' = None
    /\ local_file_path' = None
    /\ documents' = None
    /\ chunks' = <<>>
    /\ vectorstore' = None
    /\ answers' = <<>>
    /\ exc' = None
    /\ outcome' = NoOutcome
    /\ calls' = <<>>
    /\ created' = {}
    /\ UNCHANGED fs
    /\ UNCHANGED <<loadVars, appVars>>

WebNext ==
    \/ \E h \in AuthHeaders, docs \in DocumentLists, qs \in QuestionLists :
          Entry(h, docs, qs)
    \/ \E net \in NetOutcomes : Download(net)
    \/ \E res \in LoadOutcomes : Load(res)
    \/ \E res \in ChunkOutcomes : Chunk(res)
    \/ \E res \in EmbedOutcomes : Embed(res)
    \/ \E res \in ChainOutcomes : CreateChain(res)
    \/ \E res \in ChainOutcomes : Answer(res)
    \/ Return
    \/ Except
    \/ Finally
    \/ Respond


(***************************************************************************)
(* load_document (utils/document_processor.py), the Streamlit loader.      *)
(***************************************************************************)
NameBase == <<"a">>
UploadNames ==
    { NameBase \o <<".","p","d","f">>,
      NameBase \o <<".","P","D","F">>,
      NameBase \o <<".","d","o","c","x">>,
      NameBase \o <<".","d","o","c">>,
      NameBase \o <<".","D","o","c">>,
      NameBase \o <<".","t","x","t">>,
      NameBase \o <<".","t","a","r",".","t","x","t">>,
      NameBase \o <<".","c","s","v">>,
      NameBase \o <<".">>,
      NameBase,
      <<"p","d","f">> }

WriteOutcomes == {"ok", "write_error"}

LoadInit ==
    /\ ld_pc = "idle"
    /\ ld_file = <<>>
    /\ ld_temp_file_path = None
    /\ ld_invoked = "none"
    /\ ld_ret = None
    /\ ld_raised = None
    /\ ld_fs = {}
    /\ ld_calls = 0

\* document_processor.py 11-15: the temporary copy is created (delete=False)
\* and written; a failing write leaves load_document by an exception, before
\* its try block is entered.
LoadDocumentWrite(name, w) ==
    /\ ld_pc = "idle"
    /\ ld_calls < MaxRuns
    /\ HasFreshName(ld_fs, UploadSuffix(name))
    /\ ld_calls' = ld_calls + 1
    /\ ld_file' = name
    /\ ld_temp_file_path' = Some(FreshName(ld_fs, UploadSuffix(name)))
    /\ ld_fs' = ld_fs \cup {FreshName(ld_fs, UploadSuffix(name))}
    /\ ld_invoked' = "none"
    /\ ld_ret' = None
    /\ IF w = "ok"
       THEN /\ ld_raised' = None
            /\ ld_pc' = "try"
       ELSE /\ ld_raised' = Some(Exc("OSError", 0, "No space left on device"))
            /\ ld_pc' = "raised"
    /\ UNCHANGED <<webVars, appVars>>

\* document_processor.py 17-41: the value load_document returns: None from the
\* else branch, the loader's documents, or None when the loader raised.
LoadDocumentRet(name, temp_path, res) ==
    IF SelectLoaderUpload(UploadExtension(name)) = "none" THEN None
    ELSE CASE res = "docs" -> Some(<<[source |-> temp_path]>>)
           [] res = "empty" -> Some(<<>>)
           [] OTHER -> None

\* document_processor.py 17-41: the try block, up to its return.
LoadDocumentTry(res) ==
    /\ ld_pc = "try"
    /\ ld_invoked' = SelectLoaderUpload(UploadExtension(ld_file))
    /\ ld_ret' = LoadDocumentRet(ld_file, ld_temp_file_path.v, res)
    /\ ld_pc' = "finally"
    /\ UNCHANGED <<ld_file, ld_temp_file_path, ld_raised, ld_fs, ld_calls>>
    /\ UNCHANGED <<webVars, appVars>>

\* load_document without its finally block.
RemoveTempOmitted(files, temp_path) == files

\* document_processor.py 42-44: what the finally block leaves on disk.
RemoveTemp(files, temp_path) ==
    IF temp_path \in files THEN files \ {temp_path} ELSE files

\* document_processor.py 42-44
LoadDocumentFinally ==
    /\ ld_pc = "finally"
    /\ ld_fs' = RemoveTemp(ld_fs, ld_temp_file_path.v)
    /\ ld_pc' = "returned"
    /\ UNCHANGED <<ld_file, ld_temp_file_path, ld_invoked, ld_ret, ld_raised, ld_calls>>
    /\ UNCHANGED <<webVars, appVars>>

\* The caller has the result; load_document can be called again.
LoadDocumentExit ==
    /\ ld_pc \in {"returned", "raised"}
    /\ ld_pc' = "idle"
    /\ ld_file' = <<>>
    /\ ld_temp_file_path' = None
    /\ ld_invoked' = "none"
    /\ ld_ret' = None
    /\ ld_raised' = None
    /\ UNCHANGED <<ld_fs, ld_calls>>
    /\ UNCHANGED <<webVars, appVars>>

LoadNext ==
    \/ \E name \in UploadNames, w \in WriteOutcomes : LoadDocumentWrite(name, w)
    \/ \E res \in LoadOutcomes : LoadDocumentTry(res)
    \/ LoadDocumentFinally
    \/ LoadDocumentExit

(***************************************************************************)
(* The Streamlit script (app.py).  Every interaction of the user runs the  *)
(* script from its first line to its last with the widget that was used    *)
(* reporting the interaction; st.rerun() stops the run and starts another. *)
(* A run is the composition of the script's sections over the record       *)
(*   [ss, uq, tad, dir, nl, nc, ne, nq, shown]                             *)
(* (session_state, user_query, ta_default, chroma_dir, n_load, n_chunk,    *)
(* n_embed, n_qa, shown).                                                  *)
(***************************************************************************)
AppFiles == { NameBase \o <<".","p","d","f">>, NameBase \o <<".","t","x","t">> }
SampleQuestions == { "What is the company's remote work policy?",
                     "Are there any restrictions on data usage?" }
TypedQueries == { "", " ", "What is the notice period?" }

\* What the libraries can do during one run of the script.
\* A stage that is not reached has no outcome: it is fixed to its first value.
AppOutcomes ==
    { o \in [load : LoadOutcomes, chunk : {"chunks", "empty"}, embed : EmbedOutcomes] :
        /\ o.load # "docs" => o.chunk = "chunks"
        /\ (o.load # "docs" \/ o.chunk # "chunks") => o.embed = "ok" }
RmOutcomes == {"ok", "raise"}

\* Dictionary operations on st.session_state.
EmptyDict == [k \in {} |-> ""]
Put(d, k, v) == [x \in DOMAIN d \cup {k} |-> IF x = k THEN v ELSE d[x]]
Del(d, ks) == [x \in DOMAIN d \ ks |-> d[x]]
Get(d, k, default) == IF k \in DOMAIN d THEN d[k] ELSE default

\* str.strip() of a query is empty.
Blank(q) == q \in {"", " "}

AppInit ==
    /\ session_state = EmptyDict
    /\ uploaded_file = None
    /\ user_query = ""
    /\ ta_default = ""
    /\ chroma_dir = FALSE
    /\ n_load = 0
    /\ n_chunk = 0
    /\ n_embed = 0
    /\ n_qa = 0
    /\ shown = {}
    /\ last_event = "none"
    /\ cleared = FALSE
    /\ runs = 0

\* The state a run starts from: nothing displayed yet, no chain call yet.
RunState ==
    [ss |-> session_state, uq |-> user_query, tad |-> ta_default,
     dir |-> chroma_dir, nl |-> n_load, nc |-> n_chunk, ne |-> n_embed,
     nq |-> 0, shown |-> {}]

\* app.py 28-31
InitModels(s) ==
    IF "llm" \notin DOMAIN s.ss \/ "embeddings" \notin DOMAIN s.ss
    THEN [s EXCEPT !.ss = Put(Put(@, "llm", "gemini-1.5-flash"),
                              "embeddings", "models/embedding-001")]
    ELSE s

\* document_processor.py 47-59 chunk_documents
chunk_documents(docs, res) ==
    IF Falsy(docs) THEN <<>>
    ELSE IF res = "chunks"
         THEN [i \in 1..Len(docs.v) |-> [source |-> docs.v[i].source]]
         ELSE <<>>

\* document_processor.py 62-82 create_and_store_embeddings: the store, named
\* here by the uploaded file it holds, or None.
create_and_store_embeddings(cs, name, res) ==
    IF cs = <<>> THEN None
    ELSE IF res = "ok" THEN Some(name) ELSE None

\* app.py 69: the condition under which the upload section processes the
\* file of the uploader.
ShouldProcess(s, file) == file.some

\* app.py 69-92: the upload section.
UploadSection(s, file, o) ==
    IF ~ShouldProcess(s, file) THEN s
    ELSE
      LET docs == LoadDocumentRet(file.v, FreshName({}, UploadSuffix(file.v)), o.load)
          s1 == [s EXCEPT !.nl = @ + 1]
      IN IF Falsy(docs) THEN [s1 EXCEPT !.shown = @ \cup {"could_not_load"}]
         ELSE
           LET cs == chunk_documents(docs, o.chunk)
               s2 == [s1 EXCEPT !.nc = @ + 1]
           IN IF cs = <<>> THEN s2
              ELSE
                LET vs == create_and_store_embeddings(cs, file.v, o.embed)
                    s3 == [s2 EXCEPT !.ne = @ + 1]
                IN IF vs.some
                   THEN [s3 EXCEPT !.ss = Put(Put(@, "vectorstore", vs.v),
                                              "document_name", file.v),
                                   !.dir = TRUE,
                                   !.shown = @ \cup {"balloons"}]
                   ELSE [s3 EXCEPT !.shown = @ \cup {"failed_to_prepare"}]

\* app.py 109-111: a sample question's button was clicked.
SampleSection(s, q) == [s EXCEPT !.ss = Put(@, "query_input", q)]

\* app.py 113-118: the text area has no key, so it keeps what the user typed
\* for as long as it is built with the same value, and shows the new value
\* when that changes.
TextArea(s) ==
    LET value == Get(s.ss, "query_input", "")
    IN IF value # s.tad THEN [s EXCEPT !.uq = value, !.tad = value] ELSE s

\* app.py 128-165: Get Answer was clicked.
AskSection(s, qa) ==
    IF "vectorstore" \notin DOMAIN s.ss
    THEN [s EXCEPT !.shown = @ \cup {"Please upload and process a document first."}]
    ELSE IF Blank(s.uq)
    THEN [s EXCEPT !.shown = @ \cup {"Please enter a question."}]
    ELSE [s EXCEPT !.nq = @ + 1,
                   !.shown = @ \cup {IF qa = "ok" THEN "answer" ELSE "query_error"}]

\* app.py 124-125: Clear Query was clicked (st.rerun() follows).
ClearQuerySection(s) == [s EXCEPT !.ss = Put(@, "query_input", "")]

\* app.py 175-181: Clear Document Data was clicked and shutil.rmtree did not
\* raise (st.rerun() follows).
ClearDocSection(s) ==
    [s EXCEPT !.dir = FALSE,
              !.ss = Del(@, {"vectorstore", "document_name", "query_input"})]

\* app.py 190-194: Reset Application was clicked.
ResetSection(s) == [s EXCEPT !.ss = EmptyDict, !.shown = @ \cup {"reset"}]

\* app.py 28-118 of a run: everything above the buttons of the query section.
Top(s, file, o) == TextArea(UploadSection(InitModels(s), file, o))

\* A run in which no button reports a click: after st.rerun().
Rerun(s, file, o) == Top([s EXCEPT !.shown = {}], file, o)

\* The run's result becomes the session's state.
Commit(s, event) ==
    /\ session_state' = s.ss
    /\ user_query' = s.uq
    /\ ta_default' = s.tad
    /\ chroma_dir' = s.dir
    /\ n_load' = s.nl
    /\ n_chunk' = s.nc
    /\ n_embed' = s.ne
    /\ n_qa' = s.nq
    /\ shown' = s.shown
    /\ last_event' = event
    /\ runs' = runs + 1
    /\ UNCHANGED <<webVars, loadVars>>

\* The user selects a file in the uploader.
UploadFile(f, o) ==
    /\ runs < MaxRuns
    /\ uploaded_file' = Some(f)
    /\ cleared' = FALSE
    /\ Commit(Top([RunState EXCEPT !.nl = 0, !.nc = 0, !.ne = 0], Some(f), o), "upload")

\* The user removes the file from the uploader.
RemoveFile(o) ==
    /\ runs < MaxRuns
    /\ uploaded_file.some
    /\ uploaded_file' = None
    /\ UNCHANGED cleared
    /\ Commit(Top(RunState, None, o), "remove_file")

\* The user types into the text area.
EditQuery(text, o) ==
    /\ runs < MaxRuns
    /\ text # user_query
    /\ UNCHANGED <<uploaded_file, cleared>>
    /\ Commit(Top([RunState EXCEPT !.uq = text], uploaded_file, o), "edit_query")

\* app.py 122, 128-165
ClickGetAnswer(o, qa) ==
    /\ runs < MaxRuns
    /\ UNCHANGED <<uploaded_file, cleared>>
    /\ Commit(AskSection(Top(RunState, uploaded_file, o), qa), "get_answer")

\* app.py 109-111
ClickSample(q, o) ==
    /\ runs < MaxRuns
    /\ UNCHANGED <<uploaded_file, cleared>>
    /\ Commit(TextArea(SampleSection(UploadSection(InitModels(RunState), uploaded_file, o), q)),
              "sample")

\* app.py 124-126
ClickClearQuery(o, o2) ==
    /\ runs < MaxRuns
    /\ UNCHANGED <<uploaded_file, cleared>>
    /\ Commit(Rerun(ClearQuerySection(Top(RunState, uploaded_file, o)), uploaded_file, o2),
              "clear_query")

\* app.py 173-187: shutil.rmtree is called when the directory exists; when it
\* raises, the except branch reports it and neither the keys are deleted nor
\* the script re-run.
ClickClearDocumentData(o, rm, o2) ==
    /\ runs < MaxRuns
    /\ UNCHANGED uploaded_file
    /\ cleared' = TRUE
    /\ LET s == Top(RunState, uploaded_file, o)
       IN IF s.dir /\ rm = "raise"
          THEN Commit([s EXCEPT !.shown = @ \cup {"error_clearing"}], "clear_doc")
          ELSE Commit(Rerun(ClearDocSection(s), uploaded_file, o2), "clear_doc")

\* app.py 190-194
ClickReset(o) ==
    /\ runs < MaxRuns
    /\ UNCHANGED <<uploaded_file, cleared>>
    /\ Commit(ResetSection(Top(RunState, uploaded_file, o)), "reset")

\* app.py 200-208: the debug checkbox only displays.
ToggleDebug(o) ==
    /\ runs < MaxRuns
    /\ UNCHANGED <<uploaded_file, cleared>>
    /\ Commit(Top(RunState, uploaded_file, o), "debug")

AppNext ==
    \/ \E f \in AppFiles, o \in AppOutcomes : UploadFile(f, o)
    \/ \E o \in AppOutcomes : RemoveFile(o)
    \/ \E text \in TypedQueries, o \in AppOutcomes : EditQuery(text, o)
    \/ \E o \in AppOutcomes, qa \in ChainOutcomes : ClickGetAnswer(o, qa)
    \/ \E q \in SampleQuestions, o \in AppOutcomes : ClickSample(q, o)
    \/ \E o \in AppOutcomes, o2 \in AppOutcomes : ClickClearQuery(o, o2)
    \/ \E o \in AppOutcomes, rm \in RmOutcomes, o2 \in AppOutcomes :
          ClickClearDocumentData(o, rm, o2)
    \/ \E o \in AppOutcomes : ClickReset(o)
    \/ \E o \in AppOutcomes : ToggleDebug(o)

(***************************************************************************)
(* Specifications: the webhook serving requests (Spec), load_document      *)
(* being called (SpecLoad), one Streamlit session (SpecApp).               *)
(***************************************************************************)
vars == <<webVars, loadVars, appVars>>

Init == WebInit /\ LoadInit /\ AppInit

Next == WebNext

Spec == Init /\ [][Next]_vars

SpecLoad == Init /\ [][LoadNext]_vars

SpecApp == Init /\ [][AppNext]_vars


(***************************************************************************)
(* Properties.                                                             *)
(***************************************************************************)
Range(f) == {f[i] : i \in DOMAIN f}

\* The Authorization header is absent or does not start with "Bearer ".
LacksBearer(h) == ~h.some \/ ~StartsWith(h.v, BearerPrefix)

\* The handler has finished a request that passed the Authorization check.
FinishedAuthorized == pc = "done" /\ ~LacksBearer(auth_header)

\* C1: once the handler has finished a request that passed the Authorization
\* check, no temporary file or directory that the request created (by
\* download_file_from_url or tempfile.mkdtemp) still exists.
C1_TempPathsRemoved == FinishedAuthorized => created \cap fs = {}

\* C2: a QueryResponse holds exactly one answer per question, the i-th being
\* the chain's result for the i-th question over the store built from this
\* request's document; no question gives no answer.
C2_AnswersMatchQuestions ==
    outcome.kind = "QueryResponse" =>
        /\ Len(outcome.answers) = Len(payload.questions)
        /\ \A i \in 1..Len(payload.questions) :
              outcome.answers[i] =
                  [question |-> payload.questions[i], source |-> local_file_path.v]

C2_Witness ==
    /\ pc = "done"
    /\ outcome.kind = "QueryResponse"
    /\ Len(outcome.answers) = 2
    /\ payload.questions[1] # payload.questions[2]

\* C3: a request whose Authorization header is absent or does not start with
\* "Bearer " is rejected with status 401, and for it no temporary directory or
\* file is created and no download, embedding or chat-model call is made.
C3_UnauthorizedRejected ==
    (pc # "idle" /\ LacksBearer(auth_header)) =>
        /\ pc = "done"
        /\ outcome.kind = "HTTPException"
        /\ outcome.status_code = 401
        /\ calls = <<>>
        /\ created = {}
        /\ ~temp_db_path.some

C3_Witness ==
    /\ pc = "done"
    /\ auth_header = Some(<<"B","a","s","i","c"," ","t">>)
    /\ payload.documents # <<>>
    /\ outcome.status_code = 401

\* The handler raised its own HTTPException(400): the download returned no
\* path, or the loader returned no documents.
RaisedClientError ==
    /\ exc.some
    /\ exc.v.msg \in {"Could not download document from URL.",
                      "Could not load the downloaded document."}

\* C4: when download_file_from_url returns no path, or load_document_from_path
\* returns no documents, the response has status 400.
C4_ClientErrorIs400 ==
    (pc = "done" /\ RaisedClientError) => outcome.status_code = 400

\* C5: a request with a valid Bearer header ends with a QueryResponse or an
\* HTTPException; whatever was raised while handling it is reported as an
\* HTTPException of status 500 whose detail contains the exception's message.
C5_OnlyHTTPExceptionEscapes ==
    FinishedAuthorized =>
        /\ outcome.kind \in {"QueryResponse", "HTTPException"}
        /\ outcome.kind = "HTTPException" =>
              /\ outcome.status_code = 500
              /\ exc.some
              /\ exc.v.msg \in Range(outcome.detail)

StageOrder == <<"mkdtemp", "download", "load", "chunk", "embed", "create_qa_chain">>
Stages == SelectSeq(calls, LAMBDA c : c.op \in Range(StageOrder) \cup {"query"})
Started(op) == \E i \in 1..Len(calls) : calls[i].op = op

\* C6: the stages of a request are started in the order download, load, chunk,
\* embed-and-store, build chain, answer; a stage is started only if every
\* earlier one returned a non-empty result; a question reaches the chat model
\* only over the store created from this request's document in this request's
\* directory.
C6_StagesInOrder ==
    /\ \A i \in 1..Len(Stages) :
          Stages[i].op = IF i <= Len(StageOrder) THEN StageOrder[i] ELSE "query"
    /\ Started("load") => ~Falsy(local_file_path) /\ local_file_path.v \in created
    /\ Started("chunk") => ~Falsy(documents)
    /\ Started("embed") => chunks # <<>>
    /\ Started("create_qa_chain") => vectorstore.some
    /\ Started("query") =>
          /\ vectorstore.some
          /\ vectorstore.v.source = local_file_path.v
          /\ vectorstore.v.persist_directory = temp_db_path.v
          /\ documents.v # <<>>
          /\ \A i \in 1..Len(chunks) : chunks[i].source = local_file_path.v

C6_Witness ==
    /\ pc = "answer"
    /\ Len(Stages) = Len(StageOrder) + 2
    /\ Len(answers) = 2


\* The part of a URL before its query string.
BeforeQuery(url) ==
    IF \E i \in 1..Len(url) : url[i] = "?"
    THEN SubSeq(url, 1, (CHOOSE i \in 1..Len(url) :
                            url[i] = "?" /\ \A j \in 1..(i-1) : url[j] # "?") - 1)
    ELSE url

\* The extension of a file name, in lower case: what follows its last dot.
HasExtension(name) == RFind(name, ".") > 0
ExtensionOf(name) == Lower(SubSeq(name, RFind(name, ".") + 1, Len(name)))

\* The file a URL names: the last segment of its path.
UrlFileName(url) ==
    LET p == BeforeQuery(url) IN SubSeq(p, RFind(p, "/") + 1, Len(p))

\* The loader the extension stands for.
ExpectedLoader(ext) ==
    CASE ext = <<"p","d","f">> -> "PyPDFLoader"
      [] ext \in {<<"d","o","c","x">>, <<"d","o","c">>} -> "UnstructuredWordDocumentLoader"
      [] ext = <<"t","x","t">> -> "TextLoader"
      [] OTHER -> "none"

LoadersInvoked == {c.arg : c \in {d \in Range(calls) : d.op = "loader.load"}}

\* C8: load_document and load_document_from_path choose the loader from the
\* extension, compared case-insensitively (pdf, docx/doc, txt; anything else:
\* None and no loader), they agree on every extension, and the file downloaded
\* from a URL that names a pdf, docx, doc or txt file, with or without a query
\* string, is loaded by the loader of that extension.
C8_LoaderByExtension ==
    /\ \A name \in {n \in UploadNames : HasExtension(n)} :
          /\ SelectLoaderUpload(UploadExtension(name)) = ExpectedLoader(ExtensionOf(name))
          /\ SelectLoaderFromPath(PathExtension(<<"/","t","m","p","/">> \o name))
                = ExpectedLoader(ExtensionOf(name))
    /\ Started("load") =>
          LoadersInvoked =
              IF HasExtension(UrlFileName(DocUrl))
                 /\ ExpectedLoader(ExtensionOf(UrlFileName(DocUrl))) # "none"
              THEN {ExpectedLoader(ExtensionOf(UrlFileName(DocUrl)))}
              ELSE {}

\* C9: after load_document has returned (documents, None for an unsupported
\* extension, or None because the loader raised), the temporary copy it wrote
\* does not exist.
C9_TempCopyRemoved ==
    ld_pc = "returned" => ld_temp_file_path.v \notin ld_fs

C9_Witness ==
    /\ ld_pc = "returned"
    /\ ld_invoked = "TextLoader"
    /\ ~ld_ret.some

\* C7: a selected file is loaded, chunked and embedded once: the runs that
\* follow while it stays selected do not process it again; and a Get Answer
\* click with a store and a question calls the QA chain exactly once.
C7_ProcessedOncePerUpload ==
    /\ n_load <= 1
    /\ n_chunk <= 1
    /\ n_embed <= 1
    /\ (last_event = "get_answer" /\ "vectorstore" \in DOMAIN session_state
            /\ ~Blank(user_query)) => n_qa = 1

\* C10: after a click on Clear Document Data the session holds no vectorstore
\* and no document_name but still llm and embeddings, and until a file is
\* selected again every Get Answer click shows the upload-first warning and
\* does not call the QA chain.
C10_ClearedUntilNextUpload ==
    /\ last_event = "clear_doc" =>
          /\ {"vectorstore", "document_name"} \cap DOMAIN session_state = {}
          /\ {"llm", "embeddings"} \subseteq DOMAIN session_state
    /\ (cleared /\ last_event = "get_answer") =>
          /\ "Please upload and process a document first." \in shown
          /\ n_qa = 0

====
